---- MODULE Spec2Model ----
(***************************************************************************)
(* Local_Map_View: the tile serving endpoint (tile server, Express) and    *)
(* the batch tile downloader (download-tiles).                             *)
(*                                                                         *)
(* Strings that the code inspects character by character (URL segments,    *)
(* extensions, paths) are sequences of one-character strings.              *)
(***************************************************************************)
EXTENDS Integers, Sequences, FiniteSets, TLC

VARIABLES
    spc,        \* tile server: position of the request being served
    request,    \* tile server: req.params {z, x, y, ext} of that request
    store,      \* tile server: the file at the request's resolved path
    resp,       \* tile server: the response sent (status 0: none yet)
    fsLog,      \* tile server: paths handed to fs.access / res.sendFile
    accessErr,  \* tile server: the error code the fs.access callback received
    dpc,        \* downloader: position in main
    cfg,        \* downloader: the raw lat, lon, radius and zoom arguments
    zoomLevels, \* downloader: parseZooms(zoomArg)
    bbox,       \* downloader: computeBoundingBox(lat, lon, radiusMeters)
    pos,        \* downloader: the loop variables zoom index, x and y
    successCount,
    failureCount,
    exitCode,   \* downloader: process.exitCode (0 while unset)
    fetchLog,   \* downloader: the tiles handed to downloadTile, in order
    inFlight,   \* downloader: requests started and not yet completed
    disk,       \* downloader: the files written below the output directory
    downloaded, \* downloader: per tile downloaded successfully, over all runs
                \* into the output directory, the body of the latest success
    lastResult, \* downloader: the result of the last completed downloadTile
    elapsed,    \* downloader: milliseconds main has awaited in delay() since
                \* the last downloadTile completed
    tileCall,   \* a call of latLonToTile: its arguments and its result
    zoomCall,   \* a call of parseZooms: its argument and its result
    argvCall    \* a start with a command line: process.argv.slice(2), the
                \* zoom argument and the zoom levels main derives from it

svars == <<spc, request, store, resp, fsLog, accessErr>>
dvars == <<dpc, cfg, zoomLevels, bbox, pos, successCount, failureCount,
           exitCode, fetchLog, inFlight, disk, downloaded, lastResult,
           elapsed>>
vars == <<svars, dvars, tileCall, zoomCall, argvCall>>

(***************************************************************************)
(* Character-sequence helpers.                                             *)
(***************************************************************************)
Digits == {"0", "1", "2", "3", "4", "5", "6", "7", "8", "9"}

Str1(a) == <<a>>
Str2(a, b) == <<a, b>>
Str3(a, b, c) == <<a, b, c>>
Str4(a, b, c, d) == <<a, b, c, d>>

\* String.prototype.startsWith
startsWith(s, prefix) ==
    /\ Len(prefix) <= Len(s)
    /\ \A i \in 1..Len(prefix) : s[i] = prefix[i]

\* String.prototype.toLowerCase on the letters the model uses.
LowerChar(c) ==
    CASE c = "P" -> "p" [] c = "N" -> "n" [] c = "G" -> "g"
      [] c = "J" -> "j" [] c = "E" -> "e" [] c = "W" -> "w"
      [] c = "B" -> "b" [] c = "M" -> "m"
      [] OTHER -> c

toLowerCase(s) == [i \in 1..Len(s) |-> LowerChar(s[i])]

\* s.split(sep): the pieces of s between occurrences of the character sep.
RECURSIVE SplitFrom(_, _, _, _)
SplitFrom(s, sep, i, cur) ==
    IF i > Len(s) THEN <<cur>>
    ELSE IF s[i] = sep THEN <<cur>> \o SplitFrom(s, sep, i + 1, <<>>)
    ELSE SplitFrom(s, sep, i + 1, Append(cur, s[i]))

Split(s, sep) == SplitFrom(s, sep, 1, <<>>)

(***************************************************************************)
(* path.join / path.normalize (POSIX) on absolute paths.                   *)
(***************************************************************************)
\* Resolve "", "." and ".." pieces left to right; ".." at the root stays there.
RECURSIVE ResolveParts(_, _, _)
ResolveParts(parts, i, acc) ==
    IF i > Len(parts) THEN acc
    ELSE IF parts[i] = <<>> \/ parts[i] = <<".">> THEN ResolveParts(parts, i + 1, acc)
    ELSE IF parts[i] = <<".", ".">>
         THEN ResolveParts(parts, i + 1,
                           IF acc = <<>> THEN acc ELSE SubSeq(acc, 1, Len(acc) - 1))
    ELSE ResolveParts(parts, i + 1, Append(acc, parts[i]))

\* The components of an absolute path after normalization.
Components(p) == ResolveParts(Split(p, "/"), 1, <<>>)

RECURSIVE RenderParts(_, _)
RenderParts(parts, i) ==
    IF i > Len(parts) THEN <<>>
    ELSE <<"/">> \o parts[i] \o RenderParts(parts, i + 1)

\* path.normalize of an absolute path: a trailing separator is kept.
normalize(p) ==
    LET parts == Components(p)
        body == IF parts = <<>> THEN <<"/">> ELSE RenderParts(parts, 1)
    IN  IF parts # <<>> /\ Len(p) > 0 /\ p[Len(p)] = "/" THEN body \o <<"/">> ELSE body

\* path.join(a, b, c, d): the non-empty arguments joined by "/" and normalized.
RECURSIVE JoinRaw(_, _)
JoinRaw(segs, i) ==
    IF i > Len(segs) THEN <<>>
    ELSE IF segs[i] = <<>> THEN JoinRaw(segs, i + 1)
    ELSE (IF i = 1 THEN <<>> ELSE <<"/">>) \o segs[i] \o JoinRaw(segs, i + 1)

join(segs) == normalize(JoinRaw(segs, 1))

(***************************************************************************)
(* Tile server configuration.                                              *)
(***************************************************************************)
\* TILE_ROOT = path.resolve(...): an absolute, normalized directory: "/r/t".
TILE_ROOT == <<"/", "r", "/", "t">>

ALLOWED_EXTENSIONS ==
    { Str3("p", "n", "g"), Str3("j", "p", "g"),
      Str4("j", "p", "e", "g"), Str4("w", "e", "b", "p") }

\* /^\d+$/.test(value)
isValidCoordinate(value) ==
    /\ Len(value) >= 1
    /\ \A i \in 1..Len(value) : value[i] \in Digits

\* path.join(TILE_ROOT, z, x, `${y}.${extension}`), then path.normalize.
TilePath(req) ==
    normalize(join(<<TILE_ROOT, req.z, req.x,
                     req.y \o <<".">> \o toLowerCase(req.ext)>>))

\* The path lies in the root directory: the root's components lead it.
WithinRoot(p) ==
    LET rootParts == Components(TILE_ROOT)
        parts == Components(p)
    IN  /\ Len(rootParts) <= Len(parts)
        /\ SubSeq(parts, 1, Len(rootParts)) = rootParts

(***************************************************************************)
(* GET /tiles/:z/:x/:y.:ext                                                *)
(***************************************************************************)
\* The synchronous checks of the handler, in the order of its early returns:
\* the status of the rejection, or 0 when the handler goes on to fs.access.
TileStatus_ExtFirst(req) ==
    IF ~(toLowerCase(req.ext) \in ALLOWED_EXTENSIONS) THEN 415
    ELSE IF ~isValidCoordinate(req.z) \/ ~isValidCoordinate(req.x)
            \/ ~isValidCoordinate(req.y) THEN 400
    ELSE IF ~startsWith(TilePath(req), TILE_ROOT) THEN 403
    ELSE 0

TileStatus_PathFirst(req) ==
    IF ~startsWith(TilePath(req), TILE_ROOT) THEN 403
    ELSE IF ~isValidCoordinate(req.z) \/ ~isValidCoordinate(req.x)
            \/ ~isValidCoordinate(req.y) THEN 400
    ELSE IF ~(toLowerCase(req.ext) \in ALLOWED_EXTENSIONS) THEN 415
    ELSE 0

TileStatus_NoCoordCheck(req) ==
    IF ~(toLowerCase(req.ext) \in ALLOWED_EXTENSIONS) THEN 415
    ELSE IF ~startsWith(TilePath(req), TILE_ROOT) THEN 403
    ELSE 0

TileStatus(req) ==
    IF ~isValidCoordinate(req.z) \/ ~isValidCoordinate(req.x)
       \/ ~isValidCoordinate(req.y) THEN 400
    ELSE IF ~(toLowerCase(req.ext) \in ALLOWED_EXTENSIONS) THEN 415
    ELSE IF ~startsWith(TilePath(req), TILE_ROOT) THEN 403
    ELSE 0

ErrorBody(status) ==
    CASE status = 400 -> "Coordinates must be non-negative integers."
      [] status = 415 -> "Unsupported tile extension."
      [] status = 403 -> "Tile path escapes root directory."
      [] status = 404 -> "Tile not found."
      [] OTHER -> "Internal server error."

\* The file at the resolved path: absent, a readable file, a file the server
\* may not read (EACCES), or one whose lookup fails otherwise (EIO).
Bytes == {"b1", "b2"}
StoreStates ==
    {[kind |-> "absent", bytes |-> "none"]}
    \cup [kind : {"readable", "unreadable", "ioerror"}, bytes : Bytes]

\* The error fs.access(path, R_OK) reports for the file, "none" for success.
AccessError(st) ==
    CASE st.kind = "absent" -> "ENOENT"
      [] st.kind = "unreadable" -> "EACCES"
      [] st.kind = "ioerror" -> "EIO"
      [] OTHER -> "none"

\* Segments as Express hands them over, percent-decoded: "0", "12", "x",
\* "-1", "1.5", "..", "../..", "../t2".
CoordInputs ==
    { Str1("0"), Str2("1", "2"), Str1("x"), Str2("-", "1"), Str3("1", ".", "5"),
      Str2(".", "."), <<".", ".", "/", ".", ".">>, <<".", ".", "/", "t", "2">> }

ExtInputs ==
    { Str3("p", "n", "g"), Str3("P", "N", "G"), Str3("J", "p", "g"),
      Str4("j", "p", "e", "g"), Str4("W", "E", "B", "P"), Str3("b", "m", "p"),
      Str3("B", "M", "P"),
      \* "p/../../../..": a decoded %2F lets the extension hold separators
      <<"p", "/", ".", ".", "/", ".", ".", "/", ".", ".", "/", ".", ".">> }

Requests == [z : CoordInputs, x : CoordInputs, y : CoordInputs, ext : ExtInputs]

NoRequest == [z |-> <<>>, x |-> <<>>, y |-> <<>>, ext |-> <<>>]
NoResponse == [status |-> 0, body |-> "none"]

\* A request arrives, with the content store in any state.
Receive(req, st) ==
    /\ spc = "idle"
    /\ spc' = "handling"
    /\ request' = req
    /\ store' = st
    /\ resp' = NoResponse
    /\ fsLog' = <<>>
    /\ accessErr' = "pending"
    /\ UNCHANGED <<dvars, tileCall, zoomCall, argvCall>>

\* The handler up to its call of fs.access.
Handle ==
    /\ spc = "handling"
    /\ LET status == TileStatus(request)
       IN  IF status # 0
           THEN /\ resp' = [status |-> status, body |-> ErrorBody(status)]
                /\ spc' = "done"
                /\ fsLog' = fsLog
           ELSE /\ fsLog' = Append(fsLog, TilePath(request))
                /\ spc' = "access"
                /\ resp' = resp
    /\ UNCHANGED <<request, store, accessErr, dvars, tileCall, zoomCall, argvCall>>

\* Another process (the downloader, an operator) changes the file while the
\* request waits for fs.access or for res.sendFile.
StoreChange(st) ==
    /\ spc \in {"access", "send"}
    /\ st # store
    /\ store' = st
    /\ UNCHANGED <<spc, request, resp, fsLog, accessErr, dvars, tileCall, zoomCall, argvCall>>

\* The callback of fs.access.
AccessCallback ==
    /\ spc = "access"
    /\ LET code == AccessError(store)
       IN  IF code = "ENOENT"
           THEN /\ resp' = [status |-> 404, body |-> ErrorBody(404)]
                /\ spc' = "done"
                /\ fsLog' = fsLog
           ELSE IF code # "none"
           THEN \* next(error): the error middleware answers 500
                /\ resp' = [status |-> 500, body |-> ErrorBody(500)]
                /\ spc' = "done"
                /\ fsLog' = fsLog
           ELSE /\ fsLog' = Append(fsLog, TilePath(request))
                /\ spc' = "send"
                /\ resp' = resp
    /\ accessErr' = AccessError(store)
    /\ UNCHANGED <<request, store, dvars, tileCall, zoomCall, argvCall>>

\* res.sendFile: the file is opened now; a failure goes to next(err), which
\* the error middleware answers with 500.
SendFile ==
    /\ spc = "send"
    /\ IF store.kind = "readable"
       THEN resp' = [status |-> 200, body |-> store.bytes]
       ELSE resp' = [status |-> 500, body |-> ErrorBody(500)]
    /\ spc' = "done"
    /\ UNCHANGED <<request, store, fsLog, accessErr, dvars, tileCall, zoomCall, argvCall>>

\* The response is complete; the handler keeps nothing of the request.
EndRequest ==
    /\ spc = "done"
    /\ spc' = "idle"
    /\ request' = NoRequest
    /\ store' = [kind |-> "absent", bytes |-> "none"]
    /\ resp' = NoResponse
    /\ fsLog' = <<>>
    /\ accessErr' = "pending"
    /\ UNCHANGED <<dvars, tileCall, zoomCall, argvCall>>

ServerNext ==
    \/ spc = "idle" /\ \E req \in Requests, st \in StoreStates : Receive(req, st)
    \/ Handle
    \/ spc \in {"access", "send"} /\ \E st \in StoreStates : StoreChange(st)
    \/ AccessCallback
    \/ SendFile
    \/ EndRequest


(***************************************************************************)
(* The downloader: argument values and their conversions.                  *)
(*                                                                         *)
(* Angles are in hundredths of a degree, radii in metres.  A tile index or *)
(* tile count n is stored as 2*n, so that the halves that 2 ** zoom yields *)
(* for zoom = -1 are integers of the model.                                *)
(***************************************************************************)
\* A value of process.argv / process.env: undefined, the boolean true that
\* parseArgs stores for a flag without a value, the empty string, a string
\* that is no number, "Infinity", or the decimal string of a number v.
Raw(k, v) == [k |-> k, v |-> v]
Undefined == Raw("undefined", 0)
TrueFlag == Raw("true", 0)
EmptyString == Raw("empty", 0)
Text == Raw("text", 0)
InfinityString == Raw("infinity", 0)
Num(v) == Raw("num", v)

\* A JavaScript number: finite with value v, or NaN / an infinity.
Finite(v) == [fin |-> TRUE, v |-> v]
NotFinite == [fin |-> FALSE, v |-> 0]

\* Number(value); one stands for the number 1 in the unit of the quantity.
NumberOf(value, one) ==
    CASE value.k = "num" -> Finite(value.v)
      [] value.k = "true" -> Finite(one)
      [] value.k = "empty" -> Finite(0)
      [] OTHER -> NotFinite

\* getArg(name, envName): the command line wins over the environment.
getArg(argValue, envValue) ==
    IF argValue.k # "undefined" THEN argValue
    ELSE IF envValue.k # "undefined" THEN envValue
    ELSE Undefined

\* A zoom argument that is a string, or an array of strings.
ZoomStr(str) == [k |-> "str", v |-> 0, s |-> str]
ZoomArr(items) == [k |-> "arr", v |-> 0, items |-> items]

parseNumber(value, fallback, one) ==
    LET number == NumberOf(value, one)
    IN  IF number.fin THEN number ELSE fallback

DEFAULT_RADIUS_METERS == 5000
DEFAULT_ZOOMS == <<12>>

(***************************************************************************)
(* parseZooms.                                                             *)
(***************************************************************************)
RECURSIVE TrimLeft(_)
TrimLeft(str) == IF str # <<>> /\ str[1] = " " THEN TrimLeft(Tail(str)) ELSE str

RECURSIVE TrimRight(_)
TrimRight(str) ==
    IF str # <<>> /\ str[Len(str)] = " "
    THEN TrimRight(SubSeq(str, 1, Len(str) - 1))
    ELSE str

trim(str) == TrimRight(TrimLeft(str))

DigitValue(c) ==
    CASE c = "0" -> 0 [] c = "1" -> 1 [] c = "2" -> 2 [] c = "3" -> 3
      [] c = "4" -> 4 [] c = "5" -> 5 [] c = "6" -> 6 [] c = "7" -> 7
      [] c = "8" -> 8 [] c = "9" -> 9

\* The value of the longest run of digits of str from position i on, after
\* acc; n counts the digits read.
RECURSIVE ReadDigits(_, _, _, _)
ReadDigits(str, i, acc, n) ==
    IF i <= Len(str) /\ str[i] \in Digits
    THEN ReadDigits(str, i + 1, 10 * acc + DigitValue(str[i]), n + 1)
    ELSE [v |-> acc, n |-> n]

\* parseInt(str, 10): leading blanks, an optional sign, then digits; what
\* follows the digits is ignored, and without a digit the result is NaN.
parseInt(str) ==
    LET t == TrimLeft(str)
        signed == t # <<>> /\ t[1] \in {"-", "+"}
        read == ReadDigits(t, IF signed THEN 2 ELSE 1, 0, 0)
    IN  IF read.n = 0 THEN NotFinite
        ELSE IF signed /\ t[1] = "-" THEN Finite(0 - read.v)
        ELSE Finite(read.v)

includes(str, c) == \E i \in 1..Len(str) : str[i] = c

IsFiniteNumber(number) == number.fin

\* String(value) of a zoom argument.
ZoomString(value) ==
    IF value.k = "true" THEN <<"t", "r", "u", "e">> ELSE value.s

\* arr.filter((zoom, index, arr) => arr.indexOf(zoom) === index)
RECURSIVE FirstOccurrences(_, _)
FirstOccurrences(arr, i) ==
    IF i > Len(arr) THEN <<>>
    ELSE IF \E j \in 1..(i - 1) : arr[j] = arr[i]
    THEN FirstOccurrences(arr, i + 1)
    ELSE <<arr[i]>> \o FirstOccurrences(arr, i + 1)

\* arr.sort((a, b) => a - b)
RECURSIVE SortAscending(_)
SortAscending(arr) ==
    IF arr = <<>> THEN <<>>
    ELSE LET least == CHOOSE i \in 1..Len(arr) :
                          /\ \A j \in 1..Len(arr) : arr[i] <= arr[j]
                          /\ \A j \in 1..(i - 1) : arr[j] # arr[i]
         IN  <<arr[least]>> \o
             SortAscending([j \in 1..(Len(arr) - 1) |->
                               IF j < least THEN arr[j] ELSE arr[j + 1]])

RECURSIVE parseZooms(_)
RECURSIVE FlatMapParseZooms(_, _)
\* value.flatMap(parseZooms), from element i on.
FlatMapParseZooms(items, i) ==
    IF i > Len(items) THEN <<>>
    ELSE parseZooms(ZoomStr(items[i])) \o FlatMapParseZooms(items, i + 1)

parseZooms(value) ==
    IF \/ value.k = "undefined"
       \/ value.k = "str" /\ value.s = <<>>
       \/ value.k = "arr" /\ value.items = <<>>
    THEN DEFAULT_ZOOMS
    ELSE IF value.k = "arr"
    THEN SortAscending(FirstOccurrences(FlatMapParseZooms(value.items, 1), 1))
    ELSE
      LET stringValue == trim(ZoomString(value))
          dashParts == Split(stringValue, "-")
          start == parseInt(dashParts[1])
          end == parseInt(dashParts[2])
          commaParts == Split(stringValue, ",")
          parsed == [i \in 1..Len(commaParts) |-> parseInt(trim(commaParts[i]))]
          kept == SelectSeq(parsed, IsFiniteNumber)
      IN  IF includes(stringValue, "-") /\ start.fin /\ end.fin /\ start.v <= end.v
          THEN [i \in 1..(end.v - start.v + 1) |-> start.v + i - 1]
          ELSE [i \in 1..Len(kept) |-> kept[i].v]

(***************************************************************************)
(* parseArgs.                                                              *)
(***************************************************************************)
\* parts.join(sep), from part i on.
RECURSIVE JoinWith(_, _, _)
JoinWith(parts, sep, i) ==
    IF i > Len(parts) THEN <<>>
    ELSE IF i = Len(parts) THEN parts[i]
    ELSE parts[i] \o <<sep>> \o JoinWith(parts, sep, i + 1)

\* result[key] = value
SetKey(result, key, value) ==
    [k \in DOMAIN result \cup {key} |-> IF k = key THEN value ELSE result[k]]

\* The loop of parseArgs over args from index i (1-based) on.
RECURSIVE ParseArgsFrom(_, _, _)
ParseArgsFrom(args, i, result) ==
    IF i > Len(args) THEN result
    ELSE
      LET arg == args[i]
          keyValue == Split(SubSeq(arg, 3, Len(arg)), "=")
          key == keyValue[1]
          hasNext == i + 1 <= Len(args)
      IN  IF ~startsWith(arg, <<"-", "-">>)
          THEN ParseArgsFrom(args, i + 1, result)
          ELSE IF Len(keyValue) > 1
          THEN ParseArgsFrom(args, i + 1,
                   SetKey(result, key, ZoomStr(JoinWith(Tail(keyValue), "=", 1))))
          ELSE IF ~hasNext \/ args[i + 1] = <<>>
                  \/ startsWith(args[i + 1], <<"-", "-">>)
          THEN ParseArgsFrom(args, i + 1, SetKey(result, key, TrueFlag))
          ELSE ParseArgsFrom(args, i + 2, SetKey(result, key, ZoomStr(args[i + 1])))

parseArgs(argv) == ParseArgsFrom(argv, 1, <<>>)

\* args.zoom
ZoomKey == <<"z", "o", "o", "m">>
ArgsZoom(args) == IF ZoomKey \in DOMAIN args THEN args[ZoomKey] ELSE Undefined

(***************************************************************************)
(* Geodesy.                                                                *)
(***************************************************************************)
Min(a, b) == IF a < b THEN a ELSE b
Max(a, b) == IF a > b THEN a ELSE b

\* 85.05112878 degrees, in hundredths of a degree.
MercatorLimit == 8505

clampLat(lat) == Max(Min(lat, MercatorLimit), 0 - MercatorLimit)

\* (1 - Math.log(Math.tan(latRad) + 1 / Math.cos(latRad)) / Math.PI) / 2 in
\* units of 2^-20, tabulated every ten degrees between the clamp limits and
\* interpolated linearly.  At the northern limit the floating-point value is
\* a tiny negative number (-6.2e-12), which Math.floor takes to -1: the table
\* holds -1 there.  At the southern limit it is 1.000000000006.
MercatorTable ==
    << <<-8505, 1048576>>, <<-8000, 930863>>, <<-7000, 813905>>,
       <<-6000, 744070>>, <<-5000, 692957>>, <<-4000, 651607>>,
       <<-3000, 615960>>, <<-2000, 583763>>, <<-1000, 553564>>,
       <<0, 524288>>, <<1000, 495012>>, <<2000, 464813>>, <<3000, 432616>>,
       <<4000, 396969>>, <<5000, 355619>>, <<6000, 304506>>,
       <<7000, 234671>>, <<8000, 117713>>, <<8505, -1>> >>

MercatorFraction(lat) ==
    LET i == CHOOSE k \in 1..(Len(MercatorTable) - 1) :
                 /\ MercatorTable[k][1] <= lat
                 /\ lat <= MercatorTable[k + 1][1]
                 /\ \A j \in 1..(k - 1) : ~(lat <= MercatorTable[j + 1][1])
        lo == MercatorTable[i]
        hi == MercatorTable[i + 1]
    IN  IF lat = hi[1] THEN hi[2]
        ELSE lo[2] + ((hi[2] - lo[2]) * (lat - lo[1])) \div (hi[1] - lo[1])

\* 2 ** k for k >= 0.
RECURSIVE Pow2(_)
Pow2(k) == IF k <= 0 THEN 1 ELSE 2 * Pow2(k - 1)

\* const n = 2 ** zoom, stored doubled (zoom >= -1).
TwiceN(zoom) == Pow2(zoom + 1)

\* Math.floor(((lon + 180) / 360) * n)
FloorX(lon, zoom) ==
    LET a == lon + 18000
        q == a \div 72000
        r == a % 72000
    IN  q * TwiceN(zoom) + (r * TwiceN(zoom)) \div 72000

\* Math.floor(fraction * n) for the Mercator fraction of the clamped latitude.
FloorY(lat, zoom) == MercatorFraction(clampLat(lat)) \div Pow2(20 - zoom)

latLonToTile(lat, lon, zoom) ==
    LET maxIndex == TwiceN(zoom) - 2
    IN  [x |-> Min(Max(2 * FloorX(lon, zoom), 0), maxIndex),
         y |-> Min(Max(2 * FloorY(lat, zoom), 0), maxIndex)]

\* Math.PI * EARTH_RADIUS_METERS, in metres.
HalfCircumference == 20015114

\* Math.cos((lat * Math.PI) / 180) in millionths, for the center latitudes
\* of the model: 0, 1 and 37.77 degrees.
CosMillionths(lat) ==
    CASE lat = 0 -> 1000000
      [] lat = 100 -> 999848
      [] lat = 3777 -> 790476

computeBoundingBox(lat, lon, radiusMeters) ==
    LET latDelta == (radiusMeters * 18000) \div HalfCircumference
        lonDelta == (latDelta * 1000000) \div Max(CosMillionths(lat), 1)
    IN  [minLat |-> lat - latDelta, maxLat |-> lat + latDelta,
         minLon |-> lon - lonDelta, maxLon |-> lon + lonDelta]

(***************************************************************************)
(* main.                                                                   *)
(***************************************************************************)
\* The tile rectangle of one zoom level (const minX .. maxY of main).
RectOf_CornerOrder(southWest, northEast) ==
    [minX |-> southWest.x, maxX |-> northEast.x,
     minY |-> southWest.y, maxY |-> northEast.y]

RectOf(southWest, northEast) ==
    [minX |-> Min(southWest.x, northEast.x), maxX |-> Max(southWest.x, northEast.x),
     minY |-> Min(southWest.y, northEast.y), maxY |-> Max(southWest.y, northEast.y)]

Rect(box, zoom) ==
    RectOf(latLonToTile(box.minLat, box.minLon, zoom),
           latLonToTile(box.maxLat, box.maxLon, zoom))

Done == [zi |-> 0, x |-> 0, y |-> 0]

\* The loop nest of main: the variables of the next execution of the loop
\* body at or after (zi, x, y), Done when the loops are exhausted.
RECURSIVE SeekBody(_, _, _, _, _)
SeekBody(levels, box, zi, x, y) ==
    IF zi > Len(levels) THEN Done
    ELSE LET rect == Rect(box, levels[zi])
         IN  IF x > rect.maxX
             THEN IF zi + 1 > Len(levels) THEN Done
                  ELSE SeekBody(levels, box, zi + 1,
                                Rect(box, levels[zi + 1]).minX,
                                Rect(box, levels[zi + 1]).minY)
             ELSE IF y > rect.maxY
             THEN SeekBody(levels, box, zi, x + 2, rect.minY)
             ELSE [zi |-> zi, x |-> x, y |-> y]

\* y += 1 after a loop body, then the loop conditions.
Advance_YOuter(levels, box, p) ==
    LET rect == Rect(box, levels[p.zi])
    IN  IF p.x + 2 <= rect.maxX THEN [p EXCEPT !.x = p.x + 2]
        ELSE IF p.y + 2 <= rect.maxY
        THEN [zi |-> p.zi, x |-> rect.minX, y |-> p.y + 2]
        ELSE SeekBody(levels, box, p.zi, rect.maxX + 2, rect.minY)

Advance(levels, box, p) == SeekBody(levels, box, p.zi, p.x, p.y + 2)

FirstBody(levels, box) ==
    IF levels = <<>> THEN Done
    ELSE SeekBody(levels, box, 1, Rect(box, levels[1]).minX,
                  Rect(box, levels[1]).minY)

\* The command lines and environments of the model, as (argument,
\* environment) pairs per option.
MaxRadiusSteps == 1

LatSources ==
    { <<Undefined, Undefined>>, <<Undefined, EmptyString>>, <<TrueFlag, Undefined>>,
      <<Text, Undefined>>, <<Num(0), Undefined>>, <<Num(3777), Undefined>>,
      <<Num(3777), EmptyString>> }

LonSources ==
    { <<Undefined, Undefined>>, <<InfinityString, Undefined>>, <<Num(0), Undefined>>,
      <<Undefined, Num(-12242)>>, <<Num(18000), Undefined>> }

RadiusSources ==
    {<<Undefined, Undefined>>, <<Num(-2500), Undefined>>}
    \cup {<<Num(k * 2500), Undefined>> : k \in 0..MaxRadiusSteps}

\* Unset, "2" from the environment, --zoom without a value, and the strings
\* "", "0", "2", "0-1", "1,0", "0,0", "-1", "x", "2-1", " 1 ".
ZoomSources ==
    { <<Undefined, Undefined>>, <<Undefined, ZoomStr(Str1("2"))>>,
      <<TrueFlag, Undefined>>, <<ZoomStr(<<>>), Undefined>>,
      <<ZoomStr(Str1("0")), Undefined>>, <<ZoomStr(Str1("2")), Undefined>>,
      <<ZoomStr(Str3("0", "-", "1")), Undefined>>,
      <<ZoomStr(Str3("1", ",", "0")), Undefined>>,
      <<ZoomStr(Str3("0", ",", "0")), Undefined>>,
      <<ZoomStr(Str2("-", "1")), Undefined>>, <<ZoomStr(Str1("x")), Undefined>>,
      <<ZoomStr(Str3("2", "-", "1")), Undefined>>,
      <<ZoomStr(Str3(" ", "1", " ")), Undefined>> }

Configs ==
    { [argLat |-> l[1], envLat |-> l[2], argLon |-> o[1], envLon |-> o[2],
       argRadius |-> r[1], envRadius |-> r[2], argZoom |-> z[1], envZoom |-> z[2],
       ext |-> Undefined] :
        l \in LatSources, o \in LonSources, r \in RadiusSources, z \in ZoomSources }

\* const lat, lon, radiusMeters, zoomLevels of main.
LatOf(c) == parseNumber(getArg(c.argLat, c.envLat), NotFinite, 100)
LonOf(c) == parseNumber(getArg(c.argLon, c.envLon), NotFinite, 100)
RadiusOf(c) ==
    parseNumber(getArg(c.argRadius, c.envRadius), Finite(DEFAULT_RADIUS_METERS), 1)
\* args.zoom ?? process.env.DOWNLOAD_ZOOM_LEVELS
ZoomArgOf(c) == IF c.argZoom.k # "undefined" THEN c.argZoom ELSE c.envZoom
ZoomLevelsOf(c) == parseZooms(ZoomArgOf(c))

\* main returns early, with process.exitCode = 1.
ConfigError(c) ==
    \/ ~LatOf(c).fin \/ ~LonOf(c).fin
    \/ Len(ZoomLevelsOf(c)) = 0

\* The body the remote source answers with.
RemoteBytes == {"b1"}

\* What can happen inside downloadTile: the fetch resolves with an ok
\* response and the file is written, the response is not ok, fetch rejects,
\* mkdir or the open of writeFile rejects, or writeFile rejects after it has
\* opened (and so truncated) the file and written a part of the body.
FetchOutcomes ==
    {"ok", "http_error", "network_error", "write_error", "write_partial"}

\* What reaches main of the call downloadTile makes: every error is caught
\* and reported as a failure.
downloadTile_Uncaught(outcome) ==
    IF outcome = "ok" THEN "success"
    ELSE IF outcome = "http_error" THEN "failure" ELSE "throw"

downloadTile(outcome) == IF outcome = "ok" THEN "success" ELSE "failure"

\* String(n) of an integer.
RECURSIVE DigitsOf(_)
DigitsOf(n) ==
    IF n < 10 THEN <<SubSeq(<<"0", "1", "2", "3", "4", "5", "6", "7", "8", "9">>,
                            n + 1, n + 1)[1]>>
    ELSE DigitsOf(n \div 10) \o DigitsOf(n % 10)

String(n) == IF n < 0 THEN <<"-">> \o DigitsOf(0 - n) ELSE DigitsOf(n)

\* String(x) of a tile index stored as 2*x.
StringOfIndex(twice) ==
    IF twice % 2 = 0 THEN String(twice \div 2)
    ELSE (IF twice < 0 THEN <<"-">> ELSE <<>>)
         \o DigitsOf((IF twice < 0 THEN 0 - twice ELSE twice) \div 2) \o <<".", "5">>

\* str.replace('.', ''): the first '.' is removed.
RECURSIVE RemoveFirstDot(_)
RemoveFirstDot(str) ==
    IF str = <<>> THEN <<>>
    ELSE IF str[1] = "." THEN Tail(str)
    ELSE <<str[1]>> \o RemoveFirstDot(Tail(str))

DEFAULT_EXT == <<"p", "n", "g">>

\* A value of --ext / DOWNLOAD_TILE_EXT that is a string.
ExtStr(str) == [k |-> "str", v |-> 0, s |-> str]

\* const tileExt of main.
TileExtOf(c) ==
    RemoveFirstDot(IF c.ext.k = "undefined" \/ c.ext.s = <<>>
                   THEN DEFAULT_EXT ELSE c.ext.s)

\* const outputDir of main: the downloader writes into the tile server's root.
OUTPUT_DIR == TILE_ROOT

\* const outputPath of the loop body.
OutputPath(levels, p, tileExt) ==
    join(<<OUTPUT_DIR, String(levels[p.zi]), StringOfIndex(p.x),
           StringOfIndex(p.y) \o <<".">> \o tileExt>>)

\* What a writeFile that fails part-way leaves in the file.
PartialBytes == "partial"

WriteFile(files, path, bytes) ==
    [f \in DOMAIN files \cup {path} |-> IF f = path THEN bytes ELSE files[f]]

NoCall == [lat |-> 0, lon |-> 0, zoom |-> 0, called |-> FALSE,
           tile |-> [x |-> 0, y |-> 0]]

NoZoomCall == [value |-> Undefined, called |-> FALSE, result |-> <<>>]

NoArgvCall == [argv |-> <<>>, called |-> FALSE, zoomArg |-> Undefined, levels |-> <<>>]

NoBox == [minLat |-> 0, maxLat |-> 0, minLon |-> 0, maxLon |-> 0]

\* main up to the first call of downloadTile.
Configure ==
    /\ dpc = "start"
    /\ IF ConfigError(cfg)
       THEN /\ exitCode' = 1
            /\ dpc' = "done"
            /\ UNCHANGED <<zoomLevels, bbox, pos>>
       ELSE /\ zoomLevels' = ZoomLevelsOf(cfg)
            /\ bbox' = computeBoundingBox(LatOf(cfg).v, LonOf(cfg).v, RadiusOf(cfg).v)
            /\ pos' = FirstBody(zoomLevels', bbox')
            /\ dpc' = IF pos' = Done THEN "finish" ELSE "fetch"
            /\ exitCode' = exitCode
    /\ UNCHANGED <<cfg, successCount, failureCount, fetchLog, inFlight, disk, downloaded,
                   lastResult, elapsed, svars, tileCall, zoomCall, argvCall>>

\* downloadTile is called for the tile of the loop variables: fetch(url).
StartFetch ==
    /\ dpc = "fetch"
    /\ fetchLog' = Append(fetchLog, [zi |-> pos.zi, z |-> zoomLevels[pos.zi],
                                     x |-> pos.x, y |-> pos.y])
    /\ inFlight' = inFlight + 1
    /\ dpc' = "inflight"
    /\ UNCHANGED <<cfg, zoomLevels, bbox, pos, successCount, failureCount,
                   exitCode, disk, downloaded, lastResult, elapsed, svars, tileCall,
                   zoomCall, argvCall>>

\* downloadTile returns; main counts the result.
CompleteFetch(outcome, bytes) ==
    /\ dpc = "inflight"
    /\ inFlight' = inFlight - 1
    /\ disk' = IF outcome = "ok"
               THEN WriteFile(disk, OutputPath(zoomLevels, pos, TileExtOf(cfg)), bytes)
               ELSE IF outcome = "write_partial"
               THEN WriteFile(disk, OutputPath(zoomLevels, pos, TileExtOf(cfg)),
                              PartialBytes)
               ELSE disk
    /\ downloaded' = IF outcome = "ok"
                     THEN WriteFile(downloaded,
                                    [z |-> zoomLevels[pos.zi], x |-> pos.x, y |-> pos.y],
                                    bytes)
                     ELSE downloaded
    /\ lastResult' = downloadTile(outcome)
    /\ elapsed' = 0
    /\ LET result == downloadTile(outcome)
       IN  IF result = "success"
           THEN /\ successCount' = successCount + 1
                /\ dpc' = "delay25"
                /\ UNCHANGED <<failureCount, exitCode>>
           ELSE IF result = "failure"
           THEN /\ failureCount' = failureCount + 1
                /\ dpc' = "delay100"
                /\ UNCHANGED <<successCount, exitCode>>
           ELSE \* main().catch
                /\ exitCode' = 1
                /\ dpc' = "done"
                /\ UNCHANGED <<successCount, failureCount>>
    /\ UNCHANGED <<cfg, zoomLevels, bbox, pos, fetchLog, svars, tileCall, zoomCall, argvCall>>

\* The milliseconds of the two delays of the loop body.
DelayMs == 25

CooldownMs_AsDelay == DelayMs

CooldownMs == 100

\* await delay(100) after a failure.
Cooldown ==
    /\ dpc = "delay100"
    /\ dpc' = "delay25"
    /\ elapsed' = elapsed + CooldownMs
    /\ UNCHANGED <<cfg, zoomLevels, bbox, pos, successCount, failureCount,
                   exitCode, fetchLog, inFlight, disk, downloaded, lastResult, svars,
                   tileCall, zoomCall, argvCall>>

\* await delay(25), then y += 1 and the loop conditions.
Delay ==
    /\ dpc = "delay25"
    /\ pos' = Advance(zoomLevels, bbox, pos)
    /\ dpc' = IF pos' = Done THEN "finish" ELSE "fetch"
    /\ elapsed' = elapsed + DelayMs
    /\ UNCHANGED <<cfg, zoomLevels, bbox, successCount, failureCount,
                   exitCode, fetchLog, inFlight, disk, downloaded, lastResult, svars,
                   tileCall, zoomCall, argvCall>>

\* After the loops: the totals are logged and the exit code is set.
Finish ==
    /\ dpc = "finish"
    /\ exitCode' = IF failureCount > 0 THEN 1 ELSE exitCode
    /\ dpc' = "done"
    /\ UNCHANGED <<cfg, zoomLevels, bbox, pos, successCount, failureCount,
                   fetchLog, inFlight, disk, downloaded, lastResult, elapsed, svars,
                   tileCall, zoomCall, argvCall>>

DownloadNext ==
    \/ Configure
    \/ StartFetch
    \/ dpc = "inflight" /\ \E outcome \in FetchOutcomes, bytes \in RemoteBytes :
                               CompleteFetch(outcome, bytes)
    \/ Cooldown
    \/ Delay
    \/ Finish

(***************************************************************************)
(* Specifications: the tile server alone, the downloader alone.            *)
(***************************************************************************)
NoConfig ==
    [argLat |-> Undefined, envLat |-> Undefined, argLon |-> Undefined,
     envLon |-> Undefined, argRadius |-> Undefined, envRadius |-> Undefined,
     argZoom |-> Undefined, envZoom |-> Undefined, ext |-> Undefined]

\* The tile server is up and no downloader runs.
InitServe ==
    /\ spc = "idle"
    /\ request = NoRequest
    /\ store = [kind |-> "absent", bytes |-> "none"]
    /\ resp = NoResponse
    /\ fsLog = <<>>
    /\ accessErr = "pending"
    /\ dpc = "off"
    /\ cfg = NoConfig
    /\ zoomLevels = <<>>
    /\ bbox = NoBox
    /\ pos = Done
    /\ successCount = 0
    /\ failureCount = 0
    /\ exitCode = 0
    /\ fetchLog = <<>>
    /\ inFlight = 0
    /\ disk = <<>>
    /\ downloaded = <<>>
    /\ lastResult = "none"
    /\ elapsed = 0
    /\ tileCall = NoCall
    /\ zoomCall = NoZoomCall
    /\ argvCall = NoArgvCall

SpecServe == InitServe /\ [][ServerNext]_vars

\* The downloader is started with one of the configurations; no request is
\* served meanwhile.
InitDownload ==
    /\ spc = "idle"
    /\ request = NoRequest
    /\ store = [kind |-> "absent", bytes |-> "none"]
    /\ resp = NoResponse
    /\ fsLog = <<>>
    /\ accessErr = "pending"
    /\ dpc = "start"
    /\ cfg \in Configs
    /\ zoomLevels = <<>>
    /\ bbox = NoBox
    /\ pos = Done
    /\ successCount = 0
    /\ failureCount = 0
    /\ exitCode = 0
    /\ fetchLog = <<>>
    /\ inFlight = 0
    /\ disk = <<>>
    /\ downloaded = <<>>
    /\ lastResult = "none"
    /\ elapsed = 0
    /\ tileCall = NoCall
    /\ zoomCall = NoZoomCall
    /\ argvCall = NoArgvCall

SpecDownload == InitDownload /\ [][DownloadNext]_vars

\* latLonToTile alone: the zoom levels are those main can pass (an element
\* of parseZooms of a zoom argument), the coordinates finite numbers within
\* and beyond the Mercator and longitude ranges.
TileLats == {-9000, -8600, -8505, -3777, 0, 3777, 8505, 8511, 9000, 12000}
TileLons == {-54000, -18001, -18000, -12242, 0, 17999, 18000, 36000}
TileZooms ==
    UNION { {ZoomLevelsOf(c)[i] : i \in 1..Len(ZoomLevelsOf(c))} : c \in Configs }

InitTile ==
    /\ spc = "idle"
    /\ request = NoRequest
    /\ store = [kind |-> "absent", bytes |-> "none"]
    /\ resp = NoResponse
    /\ fsLog = <<>>
    /\ accessErr = "pending"
    /\ dpc = "off"
    /\ cfg = NoConfig
    /\ zoomLevels = <<>>
    /\ bbox = NoBox
    /\ pos = Done
    /\ successCount = 0
    /\ failureCount = 0
    /\ exitCode = 0
    /\ fetchLog = <<>>
    /\ inFlight = 0
    /\ disk = <<>>
    /\ downloaded = <<>>
    /\ lastResult = "none"
    /\ elapsed = 0
    /\ tileCall \in [lat : TileLats, lon : TileLons, zoom : TileZooms,
                     called : {FALSE}, tile : {[x |-> 0, y |-> 0]}]
    /\ zoomCall = NoZoomCall
    /\ argvCall = NoArgvCall

CallLatLonToTile ==
    /\ ~tileCall.called
    /\ tileCall' = [tileCall EXCEPT
                       !.called = TRUE,
                       !.tile = latLonToTile(tileCall.lat, tileCall.lon, tileCall.zoom)]
    /\ UNCHANGED <<svars, dvars, zoomCall, argvCall>>

TileNext == CallLatLonToTile

SpecTile == InitTile /\ [][TileNext]_vars

\* The downloader is run, perhaps several times, into the tile server's root
\* on a case-sensitive file system, and the tile server is then asked for
\* the tiles that were downloaded.
RoundTripExts ==
    { Undefined, ExtStr(Str3("p", "n", "g")), ExtStr(Str3("P", "N", "G")),
      ExtStr(Str4(".", "j", "p", "g")), ExtStr(Str3("g", "i", "f")) }

RoundTripZooms == { ZoomStr(Str1("1")), ZoomStr(Str3("0", "-", "1")), ZoomStr(Str2("-", "1")) }

RoundTripConfigs ==
    { [argLat |-> Num(3777), envLat |-> Undefined, argLon |-> Undefined,
       envLon |-> Num(-12242), argRadius |-> Num(0), envRadius |-> Undefined,
       argZoom |-> z, envZoom |-> Undefined, ext |-> e] :
        z \in RoundTripZooms, e \in RoundTripExts }

\* The file at a path of the output directory, as the tile server finds it.
FileOnDisk(files, path) ==
    IF path \in DOMAIN files
    THEN [kind |-> "readable", bytes |-> files[path]]
    ELSE [kind |-> "absent", bytes |-> "none"]

\* GET /tiles/{z}/{x}/{y}.{ext} for a tile the downloader wrote with ext.
RequestFor(tile, ext) ==
    [z |-> String(tile.z), x |-> StringOfIndex(tile.x), y |-> StringOfIndex(tile.y),
     ext |-> ext]

\* The downloader is started again with the same command line.
Rerun ==
    /\ dpc = "done"
    /\ spc = "idle"
    /\ dpc' = "start"
    /\ zoomLevels' = <<>>
    /\ bbox' = NoBox
    /\ pos' = Done
    /\ successCount' = 0
    /\ failureCount' = 0
    /\ exitCode' = 0
    /\ fetchLog' = <<>>
    /\ lastResult' = "none"
    /\ elapsed' = 0
    /\ UNCHANGED <<cfg, inFlight, disk, downloaded, svars, tileCall, zoomCall, argvCall>>

InitRoundTrip ==
    /\ spc = "idle"
    /\ request = NoRequest
    /\ store = [kind |-> "absent", bytes |-> "none"]
    /\ resp = NoResponse
    /\ fsLog = <<>>
    /\ accessErr = "pending"
    /\ dpc = "start"
    /\ cfg \in RoundTripConfigs
    /\ zoomLevels = <<>>
    /\ bbox = NoBox
    /\ pos = Done
    /\ successCount = 0
    /\ failureCount = 0
    /\ exitCode = 0
    /\ fetchLog = <<>>
    /\ inFlight = 0
    /\ disk = <<>>
    /\ downloaded = <<>>
    /\ lastResult = "none"
    /\ elapsed = 0
    /\ tileCall = NoCall
    /\ zoomCall = NoZoomCall
    /\ argvCall = NoArgvCall

RoundTripNext ==
    \/ Configure
    \/ StartFetch
    \/ dpc = "inflight" /\ \E outcome \in FetchOutcomes, bytes \in Bytes :
                               CompleteFetch(outcome, bytes)
    \/ Cooldown
    \/ Delay
    \/ Finish
    \/ Rerun
    \/ spc = "idle" /\ dpc = "done" /\ \E tile \in DOMAIN downloaded :
          LET req == RequestFor(tile, TileExtOf(cfg))
          IN  Receive(req, FileOnDisk(disk, TilePath(req)))
    \/ Handle
    \/ AccessCallback
    \/ SendFile
    \/ EndRequest

SpecRoundTrip == InitRoundTrip /\ [][RoundTripNext]_vars

\* parseZooms alone: the argument is undefined, one of the strings, or an
\* array of up to MaxListLen of the strings.
MaxListLen == 2

ZoomTexts ==
    { <<>>, Str1("1"), Str1("2"), Str2("1", "2"), Str3("1", "-", "3"),
      Str3("2", ",", "1"), Str3("1", ",", "1"), Str3("3", "-", "1"),
      Str2("-", "1"), Str1("x"), Str3(" ", "2", " "), Str3("1", ",", "x"),
      Str2("2", "x") }

ZoomLists == UNION { [1..n -> ZoomTexts] : n \in 0..MaxListLen }

ZoomValues ==
    {Undefined} \cup {ZoomStr(t) : t \in ZoomTexts} \cup {ZoomArr(l) : l \in ZoomLists}

InitZooms ==
    /\ spc = "idle"
    /\ request = NoRequest
    /\ store = [kind |-> "absent", bytes |-> "none"]
    /\ resp = NoResponse
    /\ fsLog = <<>>
    /\ accessErr = "pending"
    /\ dpc = "off"
    /\ cfg = NoConfig
    /\ zoomLevels = <<>>
    /\ bbox = NoBox
    /\ pos = Done
    /\ successCount = 0
    /\ failureCount = 0
    /\ exitCode = 0
    /\ fetchLog = <<>>
    /\ inFlight = 0
    /\ disk = <<>>
    /\ downloaded = <<>>
    /\ lastResult = "none"
    /\ elapsed = 0
    /\ tileCall = NoCall
    /\ zoomCall \in [value : ZoomValues, called : {FALSE}, result : {<<>>}]
    /\ argvCall = NoArgvCall

CallParseZooms ==
    /\ ~zoomCall.called
    /\ zoomCall' = [zoomCall EXCEPT !.called = TRUE,
                                    !.result = parseZooms(zoomCall.value)]
    /\ UNCHANGED <<svars, dvars, tileCall, argvCall>>

ZoomsNext == CallParseZooms

SpecZooms == InitZooms /\ [][ZoomsNext]_vars

\* The start of the downloader with a command line of up to MaxArgs
\* arguments and DOWNLOAD_ZOOM_LEVELS unset: parseArgs, then zoomArg and
\* zoomLevels of main.
MaxArgs == 4

ZoomFlag == <<"-", "-", "z", "o", "o", "m">>

ArgTokens ==
    { ZoomFlag, ZoomFlag \o Str2("=", "3"), <<"-", "-", "l", "a", "t">>,
      Str1("1"), Str1("2"), Str3("1", "-", "2") }

CommandLines == UNION { [1..n -> ArgTokens] : n \in 0..MaxArgs }

InitArgs ==
    /\ spc = "idle"
    /\ request = NoRequest
    /\ store = [kind |-> "absent", bytes |-> "none"]
    /\ resp = NoResponse
    /\ fsLog = <<>>
    /\ accessErr = "pending"
    /\ dpc = "off"
    /\ cfg = NoConfig
    /\ zoomLevels = <<>>
    /\ bbox = NoBox
    /\ pos = Done
    /\ successCount = 0
    /\ failureCount = 0
    /\ exitCode = 0
    /\ fetchLog = <<>>
    /\ inFlight = 0
    /\ disk = <<>>
    /\ downloaded = <<>>
    /\ lastResult = "none"
    /\ elapsed = 0
    /\ tileCall = NoCall
    /\ zoomCall = NoZoomCall
    /\ argvCall \in [argv : CommandLines, called : {FALSE}, zoomArg : {Undefined},
                     levels : {<<>>}]

CallParseArgs ==
    /\ ~argvCall.called
    /\ LET zoomArg == ArgsZoom(parseArgs(argvCall.argv))
       IN  argvCall' = [argvCall EXCEPT !.called = TRUE,
                                        !.zoomArg = zoomArg,
                                        !.levels = parseZooms(zoomArg)]
    /\ UNCHANGED <<svars, dvars, tileCall, zoomCall>>

ArgsNext == CallParseArgs

SpecArgs == InitArgs /\ [][ArgsNext]_vars

(***************************************************************************)
(* Claims about the tile serving endpoint (checked under SpecServe).       *)
(***************************************************************************)
\* The checks as the specification words them, stated without the handler.
DigitsOnly(seg) == seg # <<>> /\ {seg[i] : i \in 1..Len(seg)} \subseteq Digits

CoordsOk(req) == DigitsOnly(req.z) /\ DigitsOnly(req.x) /\ DigitsOnly(req.y)

ExtOk(req) ==
    \E e \in ALLOWED_EXTENSIONS :
        /\ Len(e) = Len(req.ext)
        /\ \A i \in 1..Len(e) : LowerChar(req.ext[i]) = e[i]

Escapes(req) == ~WithinRoot(TilePath(req))

\* C1: the response is decided by the first failing check in the order
\* coordinates (400), extension (415), path within root (403), file exists
\* (404); failing both the coordinate and the extension check gives 400, and
\* the extension is accepted in any letter case.
C1_FirstFailingCheck ==
    spc = "done" =>
        /\ ~CoordsOk(request) => resp.status = 400
        /\ CoordsOk(request) /\ ~ExtOk(request) => resp.status = 415
        /\ CoordsOk(request) /\ ExtOk(request) /\ Escapes(request)
              => resp.status = 403
        /\ CoordsOk(request) /\ ExtOk(request) /\ ~Escapes(request)
              /\ accessErr = "ENOENT" => resp.status = 404
        /\ resp.status = 400 => ~CoordsOk(request)
        /\ resp.status = 415 => ~ExtOk(request)
        /\ resp.status = 403 => Escapes(request)
        /\ resp.status = 404 => accessErr = "ENOENT"
        /\ resp.status \in {400, 415, 403} => accessErr = "pending"

\* C1 witness: a request failing the coordinate and the extension check has
\* been answered 400.
C1_Witness ==
    /\ spc = "done"
    /\ ~DigitsOnly(request.x)
    /\ ~ExtOk(request)
    /\ resp.status = 400

\* C2 (as claimed): past the three checks, a file that is absent or not
\* readable gives 404, any other filesystem error 500 with the generic
\* message, and otherwise 200 with the file's bytes, whatever the content
\* store does between the readability check and the send.
C2_Claim ==
    spc = "done" /\ CoordsOk(request) /\ ExtOk(request) /\ ~Escapes(request) =>
        /\ store.kind \in {"absent", "unreadable"} => resp.status = 404
        /\ store.kind = "ioerror"
              => resp = [status |-> 500, body |-> "Internal server error."]
        /\ store.kind = "readable"
              => resp = [status |-> 200, body |-> store.bytes]

\* C3 (as claimed): the filesystem is touched only for a path within the
\* root, and a request whose path leaves the root is answered 403 without any
\* filesystem access.
C3_Claim ==
    /\ fsLog # <<>> => ~Escapes(request)
    /\ \A i \in 1..Len(fsLog) : WithinRoot(fsLog[i])
    /\ spc = "done" /\ Escapes(request) => resp.status = 403 /\ fsLog = <<>>

\* C3 (amended): the filesystem is touched only for a path within the root,
\* and a request whose path leaves the root is rejected without any
\* filesystem access, by an earlier check than the path check: with 400 when
\* one of z, x, y is not digits only, and with 415 otherwise.
C3_Amended ==
    /\ fsLog # <<>> => ~Escapes(request)
    /\ \A i \in 1..Len(fsLog) : WithinRoot(fsLog[i])
    /\ spc = "done" /\ Escapes(request) =>
          /\ resp.status = (IF CoordsOk(request) THEN 415 ELSE 400)
          /\ fsLog = <<>>

\* C3 witness: a request whose path leaves the root has been answered with no
\* filesystem access.
C3_Witness ==
    /\ spc = "done"
    /\ Escapes(request)
    /\ resp.status # 0
    /\ fsLog = <<>>

\* The x segment alone makes the resolved path leave the root.
CraftedX(req) ==
    /\ DigitsOnly(req.z)
    /\ DigitsOnly(req.y)
    /\ ExtOk(req)
    /\ Escapes(req)

\* C4 (as claimed): a request whose x segment makes the resolved path
\* normalize outside the root is answered 403.
C4_Claim ==
    spc = "done" /\ CraftedX(request) => resp.status = 403

\* C4 (amended): such a request is answered 400 (the coordinate check comes
\* before the path check and rejects the segment), with no filesystem access.
C4_Amended ==
    spc = "done" /\ CraftedX(request) =>
        /\ resp = [status |-> 400,
                   body |-> "Coordinates must be non-negative integers."]
        /\ fsLog = <<>>

\* C4 witness: a traversal attempt through x has been answered.
C4_Witness ==
    /\ spc = "done"
    /\ CraftedX(request)
    /\ <<".", ".">> \in {Split(request.x, "/")[i] : i \in 1..Len(Split(request.x, "/"))}
    /\ resp.status = 400

(***************************************************************************)
(* Claims about the downloader (checked under SpecDownload).               *)
(***************************************************************************)
\* The job of a run: its zoom levels and its bounding box, from the
\* configuration.
JobLevels == ZoomLevelsOf(cfg)
JobBox == computeBoundingBox(LatOf(cfg).v, LonOf(cfg).v, RadiusOf(cfg).v)

\* Stored indices from lo to hi in steps of one tile.
Steps(lo, hi) == {v \in lo..hi : (v - lo) % 2 = 0}

\* The tiles enumerated for the job: per position of the zoom list, the
\* tiles of that level's rectangle.
TilesOfLevel(i, zoom, rect) ==
    { [zi |-> i, z |-> zoom, x |-> x, y |-> y] :
        x \in Steps(rect.minX, rect.maxX), y \in Steps(rect.minY, rect.maxY) }

JobTiles ==
    LET levels == JobLevels
        box == JobBox
    IN  UNION { TilesOfLevel(i, levels[i], Rect(box, levels[i])) :
                i \in 1..Len(levels) }

Fetches(t) == {i \in 1..Len(fetchLog) : fetchLog[i] = t}

\* The fetches of one tile coordinate (zoom, x, y) in the run.
FetchesOfCoordinate(z, x, y) ==
    {i \in 1..Len(fetchLog) :
        fetchLog[i].z = z /\ fetchLog[i].x = x /\ fetchLog[i].y = y}

\* C5 (as claimed): in one run every tile coordinate enumerated for the job
\* is fetched exactly once, whatever the outcomes of the tiles before it: at
\* no point has a coordinate been fetched twice, and when the run completes
\* every enumerated coordinate has been fetched.
C5_Claim ==
    /\ \A i \in 1..Len(fetchLog) :
          Cardinality(FetchesOfCoordinate(fetchLog[i].z, fetchLog[i].x,
                                          fetchLog[i].y)) = 1
    /\ dpc = "done" /\ ~ConfigError(cfg) =>
          \A t \in JobTiles : Cardinality(FetchesOfCoordinate(t.z, t.x, t.y)) = 1

\* What the loops of main do meet: every position of the zoom list is one
\* pass, and each tile of each pass is fetched exactly once, whatever the
\* outcomes before it (no retry, no early end).  A zoom level that occurs
\* twice in the list is two passes.
EachPassFetchedOnce ==
    /\ \A i, j \in 1..Len(fetchLog) : fetchLog[i] = fetchLog[j] => i = j
    /\ dpc = "done" /\ ~ConfigError(cfg) =>
          LET tiles == JobTiles
          IN  /\ \A t \in tiles : Cardinality(Fetches(t)) = 1
              /\ \A i \in 1..Len(fetchLog) : fetchLog[i] \in tiles
              /\ successCount + failureCount = Cardinality(tiles)

\* The center coordinate an option supplies is missing (no value at all, a
\* flag without a value, an empty string) or invalid (no finite number).
MissingOrInvalid(value) == value.k # "num"

CenterMissingOrInvalid(c) ==
    \/ MissingOrInvalid(getArg(c.argLat, c.envLat))
    \/ MissingOrInvalid(getArg(c.argLon, c.envLon))

\* C6 (as claimed): the run ends with a non-zero exit status whenever a tile
\* failed and whenever the center coordinates are missing or invalid.
C6_Claim ==
    dpc = "done" =>
        (failureCount > 0 \/ CenterMissingOrInvalid(cfg) => exitCode # 0)

\* C7 (as claimed): with the center coordinates missing or invalid, or an
\* empty zoom set, no fetch is issued and nothing is written.
C7_Claim ==
    CenterMissingOrInvalid(cfg) \/ Len(ZoomLevelsOf(cfg)) = 0 =>
        fetchLog = <<>> /\ inFlight = 0 /\ disk = <<>>

\* (x1, y1) comes before (x2, y2) in ascending x, then ascending y.
Before(a, b) == a.x < b.x \/ (a.x = b.x /\ a.y < b.y)

\* C8: within each zoom level the tiles are fetched in ascending x and, for
\* equal x, ascending y: of two fetches of one level, the earlier is the one
\* with the smaller (x, y).
C8_AscendingXThenY ==
    \A i, j \in 1..Len(fetchLog) :
        fetchLog[i].zi = fetchLog[j].zi =>
            (i < j <=> Before(fetchLog[i], fetchLog[j]))

\* C8 witness: a level with at least two columns of two tiles is complete.
C8_Witness ==
    /\ dpc = "done"
    /\ \E i, j, k \in 1..Len(fetchLog) :
          /\ i < j /\ j < k
          /\ fetchLog[i].zi = fetchLog[k].zi
          /\ fetchLog[j].zi = fetchLog[k].zi
          /\ fetchLog[i].x = fetchLog[j].x /\ fetchLog[i].y < fetchLog[j].y
          /\ fetchLog[j].x < fetchLog[k].x /\ fetchLog[k].y < fetchLog[j].y

\* The two corners of the box at a zoom level, and the inclusive rectangle
\* between two corner tiles.
CornerA(zoom) == latLonToTile(JobBox.minLat, JobBox.minLon, zoom)
CornerB(zoom) == latLonToTile(JobBox.maxLat, JobBox.maxLon, zoom)

InRectangle(cornerA, cornerB, x, y) ==
    /\ \E a, b \in {cornerA.x, cornerB.x} : a <= x /\ x <= b /\ (x - a) % 2 = 0
    /\ \E a, b \in {cornerA.y, cornerB.y} : a <= y /\ y <= b /\ (y - a) % 2 = 0

Span(a, b) == (IF a < b THEN b - a ELSE a - b) \div 2 + 1

YieldedAt(i) == {k \in 1..Len(fetchLog) : fetchLog[k].zi = i}

\* C9: for every bounding box and zoom level the enumerator yields each tile
\* of the inclusive rectangle between the tile indices of the two corners
\* exactly once and none outside it, hence at least one tile; for radius 0 it
\* yields exactly the tile containing the center.
C9_RectangleEnumerated ==
    dpc = "done" /\ ~ConfigError(cfg) =>
        \A i \in 1..Len(JobLevels) :
            LET zoom == JobLevels[i]
                cornerA == CornerA(zoom)
                cornerB == CornerB(zoom)
                yielded == YieldedAt(i)
            IN  /\ \A k \in yielded :
                      /\ fetchLog[k].z = zoom
                      /\ InRectangle(cornerA, cornerB, fetchLog[k].x, fetchLog[k].y)
                /\ \A k, m \in yielded :
                      fetchLog[k].x = fetchLog[m].x /\ fetchLog[k].y = fetchLog[m].y
                          => k = m
                /\ Cardinality(yielded) =
                      Span(cornerA.x, cornerB.x) * Span(cornerA.y, cornerB.y)
                /\ Cardinality(yielded) >= 1
                /\ RadiusOf(cfg).v = 0 =>
                      \E k \in 1..Len(fetchLog) :
                          /\ yielded = {k}
                          /\ [x |-> fetchLog[k].x, y |-> fetchLog[k].y]
                                = latLonToTile(LatOf(cfg).v, LonOf(cfg).v, zoom)

\* C9 witness: a run is complete whose box has its south-west corner below
\* and left of its north-east corner in tile space, several tiles apart.
C9_Witness ==
    /\ dpc = "done"
    /\ ~ConfigError(cfg)
    /\ CornerA(JobLevels[1]).y > CornerB(JobLevels[1]).y
    /\ CornerA(JobLevels[1]).x < CornerB(JobLevels[1]).x
    /\ Cardinality(YieldedAt(1)) >= 4

(***************************************************************************)
(* Claims about latLonToTile (checked under SpecTile).                     *)
(***************************************************************************)
\* C10 (as claimed): for every zoom level the downloader can pass and every
\* finite lat and lon, x and y are integers with 0 <= x, y <= 2^zoom - 1, and
\* at zoom 0 the result is {x: 0, y: 0}.
C10_Claim ==
    tileCall.called =>
        /\ tileCall.tile.x % 2 = 0
        /\ tileCall.tile.y % 2 = 0
        /\ 0 <= tileCall.tile.x /\ tileCall.tile.x <= TwiceN(tileCall.zoom) - 2
        /\ 0 <= tileCall.tile.y /\ tileCall.tile.y <= TwiceN(tileCall.zoom) - 2
        /\ tileCall.zoom = 0 => tileCall.tile = [x |-> 0, y |-> 0]

\* What latLonToTile does meet: the same for the zoom levels from 0 on.
TileInRangeFromZoomZero ==
    tileCall.called /\ tileCall.zoom >= 0 => C10_Claim

(***************************************************************************)
(* Claims about parseZooms (checked under SpecZooms).                      *)
(***************************************************************************)
\* The zoom levels an entry specifies, as the specification words it: an
\* individual integer, a comma-separated list of integers, or a dash-range
\* a-b with a <= b; anything else is malformed and specifies nothing.
IsInteger(text) ==
    LET digits == IF text # <<>> /\ text[1] = "-" THEN Tail(text) ELSE text
    IN  DigitsOnly(digits)

IntegerOf(text) == parseInt(text).v

EntryLevels(text) ==
    LET t == trim(text)
        dashParts == Split(t, "-")
        commaParts == Split(t, ",")
    IN  IF IsInteger(t) THEN {IntegerOf(t)}
        ELSE IF Len(dashParts) = 2 /\ DigitsOnly(dashParts[1]) /\ DigitsOnly(dashParts[2])
        THEN IntegerOf(dashParts[1])..IntegerOf(dashParts[2])
        ELSE IF Len(commaParts) >= 2
        THEN {IntegerOf(trim(commaParts[i])) :
                 i \in {j \in 1..Len(commaParts) : IsInteger(trim(commaParts[j]))}}
        ELSE {}

SpecifiedLevels(value) ==
    IF value.k = "str" THEN EntryLevels(value.s)
    ELSE UNION {EntryLevels(value.items[i]) : i \in 1..Len(value.items)}

\* A zoom specification: a non-empty string or a non-empty list of strings.
IsZoomSpecification(value) ==
    \/ value.k = "str" /\ value.s # <<>>
    \/ value.k = "arr" /\ value.items # <<>>

StrictlyAscending(arr) == \A i \in 1..(Len(arr) - 1) : arr[i] < arr[i + 1]

\* C11 (as claimed): for any zoom specification parseZooms returns the union
\* of all specified levels, without duplicates and in ascending order; a
\* range a-b with a <= b contributes a..b and malformed entries nothing.
C11_Claim ==
    zoomCall.called /\ IsZoomSpecification(zoomCall.value) =>
        /\ StrictlyAscending(zoomCall.result)
        /\ {zoomCall.result[i] : i \in 1..Len(zoomCall.result)}
              = SpecifiedLevels(zoomCall.value)

\* What parseZooms does meet: the result for a list is in ascending order
\* without duplicates, and a single well-formed range a-b with a <= b gives
\* exactly a, a+1, ..., b.
ListAscendingAndRangeExact ==
    zoomCall.called =>
        /\ zoomCall.value.k = "arr" => StrictlyAscending(zoomCall.result)
        /\ zoomCall.value = ZoomStr(Str3("1", "-", "3")) =>
              zoomCall.result = <<1, 2, 3>>

(***************************************************************************)
(* Claims about the command line (checked under SpecArgs).                 *)
(***************************************************************************)
\* The zoom levels given with a --zoom flag on the command line: the value
\* after a --zoom, or after the = of a --zoom=value.
GivenWithZoomFlag(argv) ==
    UNION { IF argv[i] = ZoomFlag /\ i + 1 <= Len(argv)
               /\ ~startsWith(argv[i + 1], <<"-", "-">>)
            THEN EntryLevels(argv[i + 1])
            ELSE IF startsWith(argv[i], ZoomFlag \o <<"=">>)
            THEN EntryLevels(SubSeq(argv[i], Len(ZoomFlag) + 2, Len(argv[i])))
            ELSE {} : i \in 1..Len(argv) }

NumberOfZoomFlags(argv) ==
    Cardinality({i \in 1..Len(argv) : startsWith(argv[i], ZoomFlag)})

\* C12 (as claimed): when --zoom is given several times, every one of the
\* given zoom levels is in the zoom set the downloader processes.
C12_Claim ==
    argvCall.called /\ NumberOfZoomFlags(argvCall.argv) >= 2 =>
        GivenWithZoomFlag(argvCall.argv)
            \subseteq {argvCall.levels[i] : i \in 1..Len(argvCall.levels)}

\* What the start does meet: the levels of the last --zoom flag that has a
\* value are in the zoom set, when no flag without a value follows it.
LastZoomFlagWins ==
    argvCall.called =>
        \A i \in 1..(Len(argvCall.argv) - 1) :
            /\ argvCall.argv[i] = ZoomFlag
            /\ ~startsWith(argvCall.argv[i + 1], <<"-", "-">>)
            /\ \A j \in (i + 1)..Len(argvCall.argv) :
                  ~startsWith(argvCall.argv[j], ZoomFlag)
            => argvCall.levels = parseZooms(ZoomStr(argvCall.argv[i + 1]))

(***************************************************************************)
(* Claims about the pacing of the downloader (checked under SpecDownload). *)
(***************************************************************************)
\* C13: at most one request is in flight at any time; a request that is not
\* the first of the run starts only after the 25 ms delay has elapsed since
\* the completion of the request before it, and after 100 ms more when that
\* request failed.
C13_SequentialWithDelays ==
    /\ inFlight \in {0, 1}
    /\ inFlight = 1 <=> dpc = "inflight"
    /\ dpc \in {"fetch", "inflight"} /\ lastResult # "none" => elapsed >= 25
    /\ dpc \in {"fetch", "inflight"} /\ lastResult = "failure" => elapsed >= 125
    /\ dpc \in {"fetch", "inflight"} /\ lastResult = "none" => Len(fetchLog) <= 1

\* C13 witness: a request is in flight that was started after a failed one,
\* and an earlier one of the run had succeeded.
C13_Witness ==
    /\ dpc = "inflight"
    /\ inFlight = 1
    /\ lastResult = "failure"
    /\ elapsed = 125
    /\ successCount >= 1
    /\ Len(fetchLog) >= 3

(***************************************************************************)
(* Claims about download and serving together (checked under              *)
(* SpecRoundTrip).                                                         *)
(***************************************************************************)
\* {root}/{z}/{x}/{y}. of a tile, and the files of the store that are the
\* tile's, whatever their extension.
TileFilePrefix(tile) ==
    TILE_ROOT \o <<"/">> \o String(tile.z) \o <<"/">> \o StringOfIndex(tile.x)
        \o <<"/">> \o StringOfIndex(tile.y) \o <<".">>

FilesOfTile(tile) == {f \in DOMAIN disk : startsWith(f, TileFilePrefix(tile))}

\* The extension the downloader writes with is one the endpoint accepts.
ExtAccepted == toLowerCase(TileExtOf(cfg)) \in {Str3("p", "n", "g"), Str3("j", "p", "g"),
                                               Str4("j", "p", "e", "g"),
                                               Str4("w", "e", "b", "p")}

\* The tile the request being served asks for.
RequestedTile(tile) == request = RequestFor(tile, TileExtOf(cfg))

DownloadAgreesWithServing ==
    ExtAccepted =>
        \A tile \in DOMAIN downloaded :
            /\ FilesOfTile(tile) = {TileFilePrefix(tile) \o TileExtOf(cfg)}
            /\ disk[TileFilePrefix(tile) \o TileExtOf(cfg)] = downloaded[tile]
            /\ spc = "done" /\ RequestedTile(tile) =>
                  resp = [status |-> 200, body |-> downloaded[tile]]

\* C14 (as claimed): after a tile has been downloaded successfully one or
\* more times, with an extension the endpoint accepts, exactly one file is
\* the tile's, it is at {root}/{z}/{x}/{y}.{ext} and holds the bytes of the
\* latest successful download, and a GET for the tile is answered 200 with
\* those bytes; a download that fails leaves the content store unchanged.
C14_Claim ==
    /\ []DownloadAgreesWithServing
    /\ [][dpc = "inflight" /\ lastResult' = "failure" => disk' = disk]_vars

\* What download and serving do meet: the same, for a lower-case extension
\* and zoom levels from 0 on, as long as no writeFile has failed part-way.
AgreesForLowerCaseAndWholeWrites ==
    /\ TileExtOf(cfg) = toLowerCase(TileExtOf(cfg))
    /\ \A f \in DOMAIN disk : disk[f] # PartialBytes
    /\ \A tile \in DOMAIN downloaded : tile.z >= 0
    => DownloadAgreesWithServing

(***************************************************************************)
(* Claims about the totals of a run (checked under SpecDownload).          *)
(***************************************************************************)
\* The sum over the zoom levels of the run, from level i on, of
\* (maxX - minX + 1) * (maxY - minY + 1).
RECURSIVE TileTotalFrom(_)
TileTotalFrom(i) ==
    IF i > Len(JobLevels) THEN 0
    ELSE Span(CornerA(JobLevels[i]).x, CornerB(JobLevels[i]).x)
           * Span(CornerA(JobLevels[i]).y, CornerB(JobLevels[i]).y)
         + TileTotalFrom(i + 1)

CompletedFetches == Len(fetchLog) - inFlight

TotalsAgree ==
    /\ successCount + failureCount = CompletedFetches
    /\ dpc = "done" /\ ~ConfigError(cfg) =>
          successCount + failureCount = TileTotalFrom(1)

\* C15: at every point of a run successCount + failureCount is the number of
\* tiles whose fetch has completed, no step decreases a counter, and when the
\* run completes the sum is the total number of tiles enumerated over all
\* zoom levels.
C15_TotalsCountEveryTile ==
    /\ []TotalsAgree
    /\ [][successCount' >= successCount /\ failureCount' >= failureCount]_vars

\* C15 witness: a run over two zoom levels is complete with several
\* successes and several failures.
C15_Witness ==
    /\ dpc = "done"
    /\ Len(zoomLevels) = 2
    /\ successCount >= 2
    /\ failureCount >= 2
    /\ successCount + failureCount = 5

====
